---- MODULE Spec2Model ----
(***************************************************************************)
(* CampusNotes backend: the JSON-file note store (src/api/store.js and its *)
(* copy src/unnamed/part_000) and the two Express servers of               *)
(* src/unnamed/part_001 (lines 1-183: the server with its own inline       *)
(* getNotes/saveNotes; lines 185-297: the server built on api/store.js),   *)
(* together with the Cloudinary blob store both servers call.              *)
(*                                                                         *)
(* Node runs each handler on one thread: the code between two awaits is    *)
(* one atomic step, and a handler is suspended at each await until the     *)
(* Cloudinary call settles.  The file system is taken to work: the catch   *)
(* branches of readFile/writeFile/getNotes/saveNotes that only an I/O      *)
(* error enters are not taken, except for the missing-file case, which     *)
(* the inline server meets on a fresh start.                               *)
(***************************************************************************)
EXTENDS Integers, Sequences, FiniteSets

VARIABLES
    variant,    \* which server of part_001 runs: "inline" or "module"
    file,       \* notes-data.json: whether it exists and the array it parses to
    blobs,      \* the Cloudinary assets that exist: [rt, pid]
    nextBlob,   \* Cloudinary's supply of generated public ids
    clock,      \* Date.now()
    reqs,       \* the handlers: each one's position, locals and last response
    started,    \* how many requests have arrived
    acked,      \* the notes that uploads returned with 201
    delIssued,  \* the ids DELETE requests were sent for
    deleted,    \* the ids whose DELETE was answered 200
    impl,       \* which store module a direct caller uses (store-level runs)
    log         \* the last two store calls of a direct caller, latest first

vars == <<variant, file, blobs, nextBlob, clock, reqs, started, acked, delIssued, deleted, impl, log>>

----------------------------------------------------------------------------
(* Bounds *)

MaxReqs == 4        \* HTTP requests in one run
MaxHandlers == 2    \* requests in flight at once
MaxClock == 2       \* values Date.now() takes
MaxTitleLen == 1    \* characters of a submitted title
MaxNotes == 2       \* records a direct caller of the store adds

----------------------------------------------------------------------------
(* JavaScript values.  A string is a sequence of characters (or of longer  *)
(* tokens where no operation looks inside them).                           *)

Undefined == [k |-> "undefined", s |-> <<>>, n |-> 0]
Str(s) == [k |-> "string", s |-> s, n |-> 0]
Num(n) == [k |-> "number", s |-> <<>>, n |-> n]
DateObj(t) == [k |-> "date", s |-> <<>>, n |-> t]

\* ToBoolean: undefined, "" and 0 are falsy.
Truthy(v) ==
    CASE v.k = "undefined" -> FALSE
      [] v.k = "string" -> v.s # <<>>
      [] v.k = "number" -> v.n # 0
      [] OTHER -> TRUE

\* a || b
OrElse(a, b) == IF Truthy(a) THEN a ELSE b

RECURSIVE TrimStart(_)
TrimStart(s) == IF s # <<>> /\ Head(s) = " " THEN TrimStart(Tail(s)) ELSE s

RECURSIVE TrimEnd(_)
TrimEnd(s) ==
    IF s # <<>> /\ s[Len(s)] = " " THEN TrimEnd(SubSeq(s, 1, Len(s) - 1)) ELSE s

\* String.prototype.trim
Trim(s) == TrimEnd(TrimStart(s))

\* v?.trim() || ''
TrimOrEmpty(v) == IF v.k = "string" THEN Str(Trim(v.s)) ELSE Str(<<>>)

Digit == <<"0", "1", "2", "3", "4", "5", "6", "7", "8", "9">>

\* Number.prototype.toString: the decimal digits of n.
RECURSIVE Decimal(_)
Decimal(n) ==
    IF n < 10 THEN <<Digit[n + 1]>> ELSE Decimal(n \div 10) \o <<Digit[(n % 10) + 1]>>

DigitValue(c) == CHOOSE d \in 0..9 : Digit[d + 1] = c

RECURSIVE FromDecimal(_)
FromDecimal(s) ==
    IF s = <<>> THEN 0
    ELSE 10 * FromDecimal(SubSeq(s, 1, Len(s) - 1)) + DigitValue(s[Len(s)])

\* Date.prototype.toISOString: the instant t written as text.
ToISOString(t) == <<"T">> \o Decimal(t)

\* new Date(v) as milliseconds: of a Date, or of the text toISOString wrote.
DateValue(v) == IF v.k = "string" THEN FromDecimal(Tail(v.s)) ELSE v.n

\* originalname.split('.')[0]
RECURSIVE Basename(_)
Basename(s) ==
    IF s = <<>> \/ Head(s) = "." THEN <<>> ELSE <<Head(s)>> \o Basename(Tail(s))

----------------------------------------------------------------------------
(* JSON.  JSON.stringify writes a Date as its toISOString text and leaves  *)
(* out a property whose value is undefined; JSON.parse reads strings and   *)
(* numbers back as they were, and a property left out reads as undefined.  *)

JsonValue(v) == IF v.k = "date" THEN Str(ToISOString(v.n)) ELSE v

\* JSON.parse(JSON.stringify(note))
JsonNote(note) == [f \in DOMAIN note |-> JsonValue(note[f])]

\* JSON.parse(JSON.stringify(notes, null, 2))
JsonNotes(notes) == [i \in DOMAIN notes |-> JsonNote(notes[i])]

Ids(notes) == {notes[i].id : i \in DOMAIN notes}

FindFirst(notes, id) ==
    IF id \in Ids(notes)
    THEN <<notes[CHOOSE i \in DOMAIN notes :
                    /\ notes[i].id = id
                    /\ \A j \in DOMAIN notes : notes[j].id = id => i <= j]>>
    ELSE <<>>

RejectId(notes, id) == SelectSeq(notes, LAMBDA x : x.id # id)

----------------------------------------------------------------------------
(* The backing file.  file.notes is the array JSON.parse yields for the    *)
(* text on disk; a missing file has file.exists = FALSE.                   *)

EmptyFile == [exists |-> TRUE, notes |-> <<>>]
MissingFile == [exists |-> FALSE, notes |-> <<>>]

(* src/api/store.js *)

\* readFileSync throws on a missing file, and the catch returns [].
readFile(f) == IF f.exists THEN f.notes ELSE <<>>

writeFile(notes) == [exists |-> TRUE, notes |-> JsonNotes(notes)]

\* Array.prototype.sort with (a, b) => new Date(b.createdAt) - new Date(a.createdAt):
\* stable, newest first.
InsertByDate(sorted, x) ==
    LET k == Cardinality({i \in DOMAIN sorted :
                            DateValue(sorted[i].createdAt) >= DateValue(x.createdAt)})
    IN SubSeq(sorted, 1, k) \o <<x>> \o SubSeq(sorted, k + 1, Len(sorted))

RECURSIVE SortNewestFirst(_)
SortNewestFirst(notes) ==
    IF notes = <<>> THEN <<>>
    ELSE InsertByDate(SortNewestFirst(SubSeq(notes, 1, Len(notes) - 1)),
                      notes[Len(notes)])

getNotes(f) == SortNewestFirst(readFile(f))

\* addNote without the read: the file holds the new note alone
addNoteOverwrites(f, note) == writeFile(<<note>>)

\* addNote without the push: the file is written back as read
addNoteForgetsPush(f, note) == writeFile(readFile(f))

\* the file after addNote(note)
addNote(f, note) == writeFile(Append(readFile(f), note))

\* what addNote(note) returns: the caller's object
addNoteResult(note) == <<note>>

\* deleteNote with the filter inverted (n.id === id)
deleteNoteKeepsMatch(f, id) == writeFile(SelectSeq(readFile(f), LAMBDA x : x.id = id))

\* the file after deleteNote(id)
deleteNote(f, id) == writeFile(RejectId(readFile(f), id))

\* findNote(id): <<the record>>, or <<>> for undefined
findNote(f, id) == FindFirst(readFile(f), id)

(* src/unnamed/part_000: the same store, without the sort and the return *)

p0_getNotes(f) == IF f.exists THEN f.notes ELSE <<>>

p0_writeFile(notes) == [exists |-> TRUE, notes |-> JsonNotes(notes)]

p0_addNote(f, note) == p0_writeFile(Append(p0_getNotes(f), note))

p0_deleteNote(f, id) == p0_writeFile(RejectId(p0_getNotes(f), id))

p0_findNote(f, id) == FindFirst(p0_getNotes(f), id)

(* src/unnamed/part_001, lines 50-67: the inline server's own store *)

inline_getNotes(f) == IF f.exists THEN f.notes ELSE <<>>

saveNotes(notes) == [exists |-> TRUE, notes |-> JsonNotes(notes)]

----------------------------------------------------------------------------
(* The requests a client sends *)

TitleChars == {" ", "a"}

RECURSIVE StringsUpTo(_)
StringsUpTo(n) ==
    IF n = 0 THEN {<<>>}
    ELSE LET shorter == StringsUpTo(n - 1)
         IN shorter \cup {Append(s, c) : s \in {t \in shorter : Len(t) = n - 1},
                                         c \in TitleChars}

\* req.body.title: absent, or any text of up to MaxTitleLen characters
Titles == {Undefined} \cup {Str(s) : s \in StringsUpTo(MaxTitleLen)}

Types == {Undefined, Str(<<"image">>)}

\* req.body of the requests sent to a server (subject and desc are left out)
ServerBodies ==
    {[title |-> t, subject |-> Undefined, desc |-> Undefined, type |-> y] :
        t \in Titles, y \in Types}

\* req.file as multer builds it
TheFile ==
    [originalname |-> <<"f", ".", "pdf">>,
     mimetype |-> Str(<<"application/pdf">>),
     size |-> Num(1)]

\* req.file: <<>> when the request has no file part
ServerFiles == {<<>>, <<TheFile>>}

\* req.params.id
DeleteIds == {Str(Decimal(t)) : t \in 1..MaxClock}

----------------------------------------------------------------------------
(* Cloudinary *)

NoCall == [rt |-> "", folder |-> <<>>, pid |-> Undefined]
NoResult == [secure_url |-> Undefined, public_id |-> Undefined]

\* type === 'image' ? 'image' : 'raw'
ResourceType(type) == IF type = Str(<<"image">>) THEN "image" ELSE "raw"

\* the options of upload_stream, inline server: the caller names the asset
UploadOptionsInline(body, upfile, now) ==
    [rt |-> ResourceType(body.type),
     folder |-> <<"campusnotes/">> \o OrElse(body.type, Str(<<"notes">>)).s,
     pid |-> Str(Decimal(now) \o <<"_">> \o Basename(upfile.originalname))]

\* the options of upload_stream, store-module server: Cloudinary names the asset
UploadOptionsModule(body) ==
    [rt |-> ResourceType(body.type),
     folder |-> <<"campusnotes/">> \o OrElse(body.type, Str(<<"files">>)).s,
     pid |-> Undefined]

\* the public_id of the asset an upload creates
AssetId(call, fresh) ==
    Str(call.folder \o <<"/">>
        \o (IF Truthy(call.pid) THEN call.pid.s ELSE <<"r">> \o Decimal(fresh)))

UploadResult(call, fresh) ==
    [secure_url |-> Str(<<"https://", call.rt, "/">> \o AssetId(call, fresh).s),
     public_id |-> AssetId(call, fresh)]

Blob(rt, pid) == [rt |-> rt, pid |-> pid]

\* the options of destroy(note.publicId, {resource_type})
DestroyCall(note) ==
    [rt |-> ResourceType(note.type), folder |-> <<>>, pid |-> note.publicId]

----------------------------------------------------------------------------
(* The note an upload builds *)

NoteInline(body, upfile, result, now) ==
    [id |-> Str(Decimal(now)),
     title |-> Str(Trim(body.title.s)),
     subject |-> TrimOrEmpty(body.subject),
     desc |-> TrimOrEmpty(body.desc),
     type |-> OrElse(body.type, Str(<<"note">>)),
     fileName |-> Str(upfile.originalname),
     fileUrl |-> result.secure_url,
     publicId |-> result.public_id,
     fileType |-> upfile.mimetype,
     fileSize |-> upfile.size,
     createdAt |-> DateObj(now)]

NoteModule(body, upfile, result, now) ==
    [id |-> Str(Decimal(now)),
     title |-> Str(Trim(body.title.s)),
     subject |-> TrimOrEmpty(body.subject),
     desc |-> TrimOrEmpty(body.desc),
     type |-> OrElse(body.type, Str(<<"note">>)),
     fileUrl |-> result.secure_url,
     publicId |-> result.public_id,
     fileName |-> Str(upfile.originalname),
     fileType |-> upfile.mimetype,
     fileSize |-> upfile.size,
     createdAt |-> Str(ToISOString(now))]

----------------------------------------------------------------------------
(* The servers of src/unnamed/part_001 *)

Reqs == 1..MaxHandlers

IdleReq ==
    [kind |-> "none", pc |-> "idle", body |-> <<>>, upfile |-> <<>>,
     id |-> Undefined, notes |-> <<>>, call |-> NoCall,
     settled |-> "none", result |-> NoResult, status |-> 0]

\* the response is sent and the handler's locals are gone
Respond(req, status) ==
    [IdleReq EXCEPT !.kind = req.kind, !.pc = "done", !.status = status]

Free(r) == reqs[r].pc \in {"idle", "done"}

\* a request arrives and the first free handler takes it
Arrives(r) ==
    /\ started < MaxReqs
    /\ Free(r)
    /\ \A q \in 1..(r - 1) : ~Free(q)
    /\ started' = started + 1

\* the validation without its title test
UploadInvalidFileOnly(body, upfile) == upfile = <<>>

\* !req.file || !title
UploadInvalid(body, upfile) == upfile = <<>> \/ ~Truthy(body.title)

\* POST /api/upload up to the await: validation, then the call to Cloudinary
UploadStart(r, body, upfile) ==
    /\ Arrives(r)
    /\ IF UploadInvalid(body, upfile)
       THEN reqs' = [reqs EXCEPT ![r] =
                Respond([IdleReq EXCEPT !.kind = "upload"], 400)]
       ELSE reqs' = [reqs EXCEPT ![r] =
                [IdleReq EXCEPT !.kind = "upload", !.pc = "awaitUpload",
                          !.body = <<body>>, !.upfile = upfile,
                          !.call = IF variant = "inline"
                                   THEN UploadOptionsInline(body, upfile[1], clock)
                                   ELSE UploadOptionsModule(body)]]
    /\ UNCHANGED <<variant, file, blobs, nextBlob, clock, acked, delIssued, deleted,
                   impl, log>>

\* Cloudinary stores the asset (replacing one of the same name) and calls back
CloudUploadOk(r) ==
    /\ reqs[r].pc = "awaitUpload"
    /\ reqs[r].settled = "none"
    /\ LET res == UploadResult(reqs[r].call, nextBlob)
       IN /\ blobs' = blobs \cup {Blob(reqs[r].call.rt, res.public_id)}
          /\ reqs' = [reqs EXCEPT ![r].settled = "ok", ![r].result = res]
    /\ nextBlob' = IF Truthy(reqs[r].call.pid) THEN nextBlob ELSE nextBlob + 1
    /\ UNCHANGED <<variant, file, clock, started, acked, delIssued, deleted, impl, log>>

\* the upload fails: the callback gets an error
CloudUploadFail(r) ==
    /\ reqs[r].pc = "awaitUpload"
    /\ reqs[r].settled = "none"
    /\ reqs' = [reqs EXCEPT ![r].settled = "err"]
    /\ UNCHANGED <<variant, file, blobs, nextBlob, clock, started, acked, delIssued,
                   deleted, impl, log>>

\* POST /api/upload after the await, inline server
UploadResumeInline(r) ==
    IF reqs[r].settled = "err"
    THEN /\ reqs' = [reqs EXCEPT ![r] = Respond(@, 500)]
         /\ file' = file
         /\ acked' = acked
    ELSE LET note == NoteInline(reqs[r].body[1], reqs[r].upfile[1],
                                reqs[r].result, clock)
         IN /\ file' = saveNotes(Append(inline_getNotes(file), note))
            /\ reqs' = [reqs EXCEPT ![r] = Respond(@, 201)]
            /\ acked' = acked \cup {JsonNote(note)}

\* POST /api/upload after the await, store-module server
UploadResumeModule(r) ==
    IF reqs[r].settled = "err"
    THEN /\ reqs' = [reqs EXCEPT ![r] = Respond(@, 500)]
         /\ file' = file
         /\ acked' = acked
    ELSE LET note == NoteModule(reqs[r].body[1], reqs[r].upfile[1],
                                reqs[r].result, clock)
         IN /\ file' = addNote(file, note)
            /\ reqs' = [reqs EXCEPT ![r] = Respond(@, 201)]
            /\ acked' = acked \cup {JsonNote(note)}

UploadResume(r) ==
    /\ reqs[r].pc = "awaitUpload"
    /\ reqs[r].settled # "none"
    /\ IF variant = "inline" THEN UploadResumeInline(r) ELSE UploadResumeModule(r)
    /\ UNCHANGED <<variant, blobs, nextBlob, clock, started, delIssued, deleted, impl, log>>

\* DELETE /api/data/:id up to the await, inline server
DeleteStartInline(r, id) ==
    LET notes == inline_getNotes(file)
        found == FindFirst(notes, id)
    IN IF found = <<>>
       THEN /\ reqs' = [reqs EXCEPT ![r] =
                    Respond([IdleReq EXCEPT !.kind = "delete", !.id = id], 404)]
            /\ file' = file
            /\ deleted' = deleted
       ELSE IF Truthy(found[1].publicId)
       THEN /\ reqs' = [reqs EXCEPT ![r] =
                    [IdleReq EXCEPT !.kind = "delete", !.id = id,
                                    !.pc = "awaitDestroy", !.notes = notes,
                                    !.call = DestroyCall(found[1])]]
            /\ file' = file
            /\ deleted' = deleted
       ELSE /\ file' = saveNotes(RejectId(notes, id))
            /\ deleted' = deleted \cup {id}
            /\ reqs' = [reqs EXCEPT ![r] =
                    Respond([IdleReq EXCEPT !.kind = "delete", !.id = id], 200)]

\* DeleteStartModule answering 200 instead of 404 to an unknown id
DeleteStartModuleIdempotent(r, id) ==
    LET found == findNote(file, id)
    IN /\ IF found = <<>>
          THEN reqs' = [reqs EXCEPT ![r] =
                    Respond([IdleReq EXCEPT !.kind = "delete", !.id = id], 200)]
          ELSE reqs' = [reqs EXCEPT ![r] =
                    [IdleReq EXCEPT !.kind = "delete", !.id = id,
                                    !.pc = "awaitDestroy",
                                    !.call = DestroyCall(found[1])]]
       /\ file' = file
       /\ deleted' = IF found = <<>> THEN deleted \cup {id} ELSE deleted

\* DELETE /api/data/:id up to the await, store-module server
DeleteStartModule(r, id) ==
    LET found == findNote(file, id)
    IN /\ IF found = <<>>
          THEN reqs' = [reqs EXCEPT ![r] =
                    Respond([IdleReq EXCEPT !.kind = "delete", !.id = id], 404)]
          ELSE reqs' = [reqs EXCEPT ![r] =
                    [IdleReq EXCEPT !.kind = "delete", !.id = id,
                                    !.pc = "awaitDestroy",
                                    !.call = DestroyCall(found[1])]]
       /\ file' = file
       /\ deleted' = deleted

DeleteStart(r, id) ==
    /\ Arrives(r)
    /\ IF variant = "inline" THEN DeleteStartInline(r, id) ELSE DeleteStartModule(r, id)
    /\ delIssued' = delIssued \cup {id}
    /\ UNCHANGED <<variant, blobs, nextBlob, clock, acked, impl, log>>

\* Cloudinary destroys the asset (or finds none of that name) and resolves
CloudDestroyOk(r) ==
    /\ reqs[r].pc = "awaitDestroy"
    /\ reqs[r].settled = "none"
    /\ blobs' = blobs \ {Blob(reqs[r].call.rt, reqs[r].call.pid)}
    /\ reqs' = [reqs EXCEPT ![r].settled = "ok"]
    /\ UNCHANGED <<variant, file, nextBlob, clock, started, acked, delIssued, deleted,
                   impl, log>>

\* the destroy call fails: the promise rejects
CloudDestroyFail(r) ==
    /\ reqs[r].pc = "awaitDestroy"
    /\ reqs[r].settled = "none"
    /\ reqs' = [reqs EXCEPT ![r].settled = "err"]
    /\ UNCHANGED <<variant, file, blobs, nextBlob, clock, started, acked, delIssued,
                   deleted, impl, log>>

\* DELETE after the await, inline server: the inner catch only logs
DeleteResumeInline(r) ==
    /\ file' = saveNotes(RejectId(reqs[r].notes, reqs[r].id))
    /\ reqs' = [reqs EXCEPT ![r] = Respond(@, 200)]
    /\ deleted' = deleted \cup {reqs[r].id}

\* DeleteResumeModule with the rejection swallowed, as the inline server does
DeleteResumeModuleBestEffort(r) ==
    /\ file' = deleteNote(file, reqs[r].id)
    /\ reqs' = [reqs EXCEPT ![r] = Respond(@, 200)]
    /\ deleted' = deleted \cup {reqs[r].id}

\* DELETE after the await, store-module server: a rejection goes to the catch
DeleteResumeModule(r) ==
    IF reqs[r].settled = "err"
    THEN /\ reqs' = [reqs EXCEPT ![r] = Respond(@, 500)]
         /\ file' = file
         /\ deleted' = deleted
    ELSE /\ file' = deleteNote(file, reqs[r].id)
         /\ reqs' = [reqs EXCEPT ![r] = Respond(@, 200)]
         /\ deleted' = deleted \cup {reqs[r].id}

DeleteResume(r) ==
    /\ reqs[r].pc = "awaitDestroy"
    /\ reqs[r].settled # "none"
    /\ IF variant = "inline" THEN DeleteResumeInline(r) ELSE DeleteResumeModule(r)
    /\ UNCHANGED <<variant, blobs, nextBlob, clock, started, acked, delIssued, impl, log>>

\* GET /api/notes (and /api/data of the inline server): the response body
ListResponse ==
    IF variant = "inline" THEN inline_getNotes(file) ELSE getNotes(file)

\* a millisecond passes
Tick ==
    /\ clock < MaxClock
    /\ clock' = clock + 1
    /\ UNCHANGED <<variant, file, blobs, nextBlob, reqs, started, acked, delIssued,
                   deleted, impl, log>>

Init ==
    /\ variant \in {"inline", "module"}
    /\ file = IF variant = "inline" THEN MissingFile ELSE EmptyFile
    /\ blobs = {}
    /\ nextBlob = 1
    /\ clock = 1
    /\ reqs = [r \in Reqs |-> IdleReq]
    /\ started = 0
    /\ acked = {}
    /\ delIssued = {}
    /\ deleted = {}
    /\ impl = "none"
    /\ log = <<>>

Next ==
    \/ Tick
    \/ \E r \in Reqs, body \in ServerBodies, upfile \in ServerFiles :
            UploadStart(r, body, upfile)
    \/ \E r \in Reqs : CloudUploadOk(r)
    \/ \E r \in Reqs : CloudUploadFail(r)
    \/ \E r \in Reqs : UploadResume(r)
    \/ \E r \in Reqs, id \in DeleteIds : DeleteStart(r, id)
    \/ \E r \in Reqs : CloudDestroyOk(r)
    \/ \E r \in Reqs : CloudDestroyFail(r)
    \/ \E r \in Reqs : DeleteResume(r)

Spec == Init /\ [][Next]_vars

----------------------------------------------------------------------------
(* A direct caller of the store module: api/store.js, or part_000 *)

Subjects == {Str(<<" ", "s">>)}

\* the bodies an upload accepts
StoreBodies ==
    {[title |-> t, subject |-> u, desc |-> Undefined, type |-> Undefined] :
        t \in {x \in Titles : Truthy(x)}, u \in Subjects}

\* the notes the store-module server hands to addNote
StoreNotes ==
    {NoteModule(body, TheFile, UploadResult(UploadOptionsModule(body), 1), now) :
        body \in StoreBodies, now \in 1..MaxClock}

\* a logged call: its arguments, what it returned, and whether the id it names
\* was absent from the collection when it was made
Call(op, note, id, ret, absent) ==
    [op |-> op, note |-> note, id |-> id, ret |-> ret, absent |-> absent]

Logged(call) == <<call>> \o SubSeq(log, 1, IF log = <<>> THEN 0 ELSE 1)

StoreFrame == UNCHANGED <<variant, blobs, nextBlob, clock, reqs, started, acked,
                          delIssued, deleted, impl>>

CallAddNote(note) ==
    /\ Len(file.notes) < MaxNotes
    /\ file' = IF impl = "api/store.js" THEN addNote(file, note) ELSE p0_addNote(file, note)
    /\ log' = Logged(Call("addNote", <<note>>, note.id,
                          IF impl = "api/store.js" THEN addNoteResult(note) ELSE <<>>,
                          note.id \notin Ids(file.notes)))
    /\ StoreFrame

CallDeleteNote(id) ==
    /\ file' = IF impl = "api/store.js" THEN deleteNote(file, id) ELSE p0_deleteNote(file, id)
    /\ log' = Logged(Call("deleteNote", <<>>, id, <<>>, id \notin Ids(file.notes)))
    /\ StoreFrame

CallFindNote(id) ==
    /\ file' = file
    /\ log' = Logged(Call("findNote", <<>>, id,
                          IF impl = "api/store.js" THEN findNote(file, id)
                          ELSE p0_findNote(file, id),
                          id \notin Ids(file.notes)))
    /\ StoreFrame

CallGetNotes ==
    /\ file' = file
    /\ log' = Logged(Call("getNotes", <<>>, Undefined,
                          IF impl = "api/store.js" THEN getNotes(file)
                          ELSE p0_getNotes(file),
                          FALSE))
    /\ StoreFrame

\* importing the module creates the file when it is missing
InitStore ==
    /\ variant = "module"
    /\ file = EmptyFile
    /\ blobs = {}
    /\ nextBlob = 1
    /\ clock = 1
    /\ reqs = [r \in Reqs |-> IdleReq]
    /\ started = 0
    /\ acked = {}
    /\ delIssued = {}
    /\ deleted = {}
    /\ impl \in {"api/store.js", "part_000"}
    /\ log = <<>>

NextStore ==
    \/ \E note \in StoreNotes : CallAddNote(note)
    \/ \E id \in DeleteIds : CallDeleteNote(id)
    \/ \E id \in DeleteIds : CallFindNote(id)
    \/ CallGetNotes

SpecStore == InitStore /\ [][NextStore]_vars

----------------------------------------------------------------------------
(* Properties *)

Range(seq) == {seq[i] : i \in DOMAIN seq}

\* C1 (SpecStore): with api/store.js, when addNote(r) is called with an id the
\* collection does not hold and findNote(r.id) is the next call, findNote
\* returns a record equal to r in every field, and addNote returned r.
C1_RoundTrip ==
    ( /\ impl = "api/store.js"
      /\ Len(log) = 2
      /\ log[2].op = "addNote"
      /\ log[2].absent
      /\ log[1].op = "findNote"
      /\ log[1].id = log[2].id )
    => (log[1].ret = log[2].note /\ log[2].ret = log[2].note)

\* addNote(r) then findNote(r.id) have run on a collection that held another record
C1_Witness ==
    /\ impl = "api/store.js"
    /\ Len(log) = 2
    /\ log[2].op = "addNote"
    /\ log[2].absent
    /\ log[1].op = "findNote"
    /\ log[1].id = log[2].id
    /\ Len(file.notes) = 2
    /\ file.notes[2].id = log[1].id

\* C2: an upload request without a title or without a file part is answered 400
\* in the step that receives it: no Cloudinary upload is started, and the
\* collection and the blob store stay as they were.
C2_UploadValidation ==
    [][\A r \in Reqs, body \in ServerBodies, upfile \in ServerFiles :
          ((upfile = <<>> \/ body.title = Undefined) /\ UploadStart(r, body, upfile))
          => /\ reqs'[r].pc = "done"
             /\ reqs'[r].status = 400
             /\ file' = file
             /\ blobs' = blobs]_vars

\* an upload was answered 400 while the collection held a record
C2_Witness ==
    /\ \E r \in Reqs : reqs[r].kind = "upload" /\ reqs[r].status = 400
    /\ file.notes # <<>>
    /\ blobs # {}

\* C3: a DELETE whose id matches no record when the handler looks it up is
\* answered 404 in that step: no destroy call is started and the collection
\* and the blob store stay as they were.
C3_DeleteUnknown ==
    [][\A r \in Reqs, id \in DeleteIds :
          (id \notin Ids(file.notes) /\ DeleteStart(r, id))
          => /\ reqs'[r].pc = "done"
             /\ reqs'[r].status = 404
             /\ file' = file
             /\ blobs' = blobs]_vars

\* a DELETE was answered 404 while the collection held a record
C3_Witness ==
    /\ \E r \in Reqs : reqs[r].kind = "delete" /\ reqs[r].status = 404
    /\ file.notes # <<>>

\* C4: no two records of the persisted collection have the same id.
C4_IdsUnique ==
    \A i, j \in DOMAIN file.notes : file.notes[i].id = file.notes[j].id => i = j

\* C5: every persisted record that has a publicId has its blob in the blob store.
C5_RecordHasBlob ==
    \A i \in DOMAIN file.notes :
        Truthy(file.notes[i].publicId)
        => Blob(ResourceType(file.notes[i].type), file.notes[i].publicId) \in blobs

\* C5, with no request in flight: the same, in the states where every handler
\* has answered.
C5_RecordHasBlobAtRest == (\A r \in Reqs : Free(r)) => C5_RecordHasBlob

\* C6: every record an upload returned with 201 has a title that is not empty.
C6_TitleNonEmpty == \A n \in acked : n.title.s # <<>>

\* C7: in the store-module server, a DELETE whose destroy call failed is
\* answered 500 and leaves the collection as it is, and a record leaves the
\* collection only in the step of a DELETE whose destroy call succeeded.
C7_StrictDelete ==
    [][variant = "module" =>
        /\ \A r \in Reqs :
              (reqs[r].pc = "awaitDestroy" /\ reqs[r].settled = "err"
                  /\ reqs'[r].pc = "done")
              => (reqs'[r].status = 500 /\ file' = file)
        /\ (Range(file.notes) \ Range(file'.notes) # {})
              => \E r \in Reqs :
                    /\ reqs[r].pc = "awaitDestroy"
                    /\ reqs[r].settled = "ok"
                    /\ reqs'[r].status = 200]_vars

\* a DELETE of a persisted record was answered 500 and the record is still there
C7_Witness ==
    /\ variant = "module"
    /\ \E r \in Reqs : reqs[r].kind = "delete" /\ reqs[r].status = 500
    /\ deleted = {}
    /\ delIssued \cap Ids(file.notes) # {}

\* C8 (SpecStore): deleteNote(id) with an id the collection does not hold
\* returns normally and leaves the same records in the same order.
C8_DeleteAbsentNoop ==
    [][\A id \in DeleteIds :
          (id \notin Ids(file.notes) /\ CallDeleteNote(id))
          => (file'.notes = file.notes /\ log'[1].ret = <<>>)]_vars

\* deleteNote was called with an absent id on a collection of two records
C8_Witness ==
    /\ log # <<>>
    /\ log[1].op = "deleteNote"
    /\ log[1].absent
    /\ Len(file.notes) = 2

\* C9: in the inline server, an id whose DELETE was answered 200 is in no
\* later list response.
C9_DeletedStaysDeleted ==
    variant = "inline" => \A id \in deleted : id \notin Ids(ListResponse)

\* C9, records told apart by their blob as well: a DELETE step never brings
\* back a record the collection had lost.
C9_DeleteNeverRestores ==
    [][\A r \in Reqs :
          (variant = "inline" /\ reqs[r].pc = "awaitDestroy" /\ reqs'[r].pc = "done")
          => Range(file'.notes) \subseteq Range(file.notes)]_vars

\* C10: in the store-module server, every record an upload returned with 201,
\* and for whose id no DELETE was sent, is in the persisted collection.
C10_NoLostUpload ==
    variant = "module" =>
        \A n \in acked : n.id \notin delIssued => n \in Range(file.notes)

\* two uploads were answered 201 and a DELETE of one of them 200, with
\* requests overlapping, and the other record is in the collection
C10_Witness ==
    /\ variant = "module"
    /\ Cardinality(acked) >= 2
    /\ deleted # {}
    /\ \E n \in acked : n.id \notin delIssued /\ n \in Range(file.notes)

====
